---- MODULE Spec2Model ----
(***************************************************************************)
(* Verification model of github.com/Fuchsoria/telegram-webapps             *)
(* (webapps.go): VerifyWebAppData and the helpers it calls.                *)
(*                                                                         *)
(* Go strings are modelled as sequences of one-character strings, so that  *)
(* percent-decoding, byte-wise sorting, integer parsing and JSON decoding  *)
(* are computed character by character as the code and the standard        *)
(* library compute them.  64-bit integers are modelled as signed decimal   *)
(* digit sequences with explicit wrap-around at 2^63.                      *)
(***************************************************************************)
EXTENDS Integers, Sequences, FiniteSets, TLC

(***************************************************************************)
(* Characters and strings                                                  *)
(***************************************************************************)

\* The printable ASCII characters, code 32 (space) to code 126 (~), in order
\* (code 96 has no string literal in TLA+ and is never used).
Printable ==
  << " ", "!", "\"", "#", "$", "%", "&", "'", "(", ")", "*", "+", ",", "-", ".", "/",
     "0", "1", "2", "3", "4", "5", "6", "7", "8", "9", ":", ";", "<", "=", ">", "?",
     "@", "A", "B", "C", "D", "E", "F", "G", "H", "I", "J", "K", "L", "M", "N", "O",
     "P", "Q", "R", "S", "T", "U", "V", "W", "X", "Y", "Z", "[", "\\", "]", "^", "_",
     "(backtick)", "a", "b", "c", "d", "e", "f", "g", "h", "i", "j", "k", "l", "m", "n", "o",
     "p", "q", "r", "s", "t", "u", "v", "w", "x", "y", "z", "{", "|", "}", "~" >>

CodeOf == [c \in {Printable[i] : i \in 1..Len(Printable)} |->
             31 + (CHOOSE i \in 1..Len(Printable) : Printable[i] = c)]

\* The byte value of a character ("\n" is the only non-printable one used).
Code(c) == IF c = "\n" THEN 10 ELSE CodeOf[c]

\* The character of a byte value.
Chr(n) == IF n = 10 THEN "\n" ELSE Printable[n - 31]

Digits == <<"0", "1", "2", "3", "4", "5", "6", "7", "8", "9">>

IsDigit(c) == Code(c) >= 48 /\ Code(c) <= 57

DigitVal(c) == Code(c) - 48

\* Go's string comparison a < b: byte-wise lexicographic.
StrLess(a, b) ==
  LET n    == IF Len(a) < Len(b) THEN Len(a) ELSE Len(b)
      diff == {i \in 1..n : a[i] # b[i]}
  IN  IF diff = {} THEN Len(a) < Len(b)
      ELSE LET d == CHOOSE i \in diff : \A j \in diff : i <= j
           IN  Code(a[d]) < Code(b[d])

\* strings.Index for a single byte: the first position of c in s, 0 if none.
IndexOf(s, c) ==
  IF \E i \in 1..Len(s) : s[i] = c
  THEN CHOOSE i \in 1..Len(s) : s[i] = c /\ \A j \in 1..(i - 1) : s[j] # c
  ELSE 0

\* strings.Cut(s, sep) for a one-byte separator: <<before, after>>.
Cut(s, c) ==
  LET i == IndexOf(s, c)
  IN  IF i = 0 THEN <<s, <<>>>>
      ELSE <<SubSeq(s, 1, i - 1), SubSeq(s, i + 1, Len(s))>>

\* The concatenation of a sequence of strings.
RECURSIVE Flatten(_)
Flatten(ss) ==
  IF ss = <<>> THEN <<>>
  ELSE IF Len(ss) = 1 THEN ss[1]
  ELSE LET h == Len(ss) \div 2
       IN  Flatten(SubSeq(ss, 1, h)) \o Flatten(SubSeq(ss, h + 1, Len(ss)))

\* strings.Join(parts, sep).
RECURSIVE Join(_, _)
Join(parts, sep) ==
  IF parts = <<>> THEN <<>>
  ELSE IF Len(parts) = 1 THEN parts[1]
  ELSE parts[1] \o sep \o Join(Tail(parts), sep)

(***************************************************************************)
(* net/url: QueryUnescape, QueryEscape, ParseQuery                         *)
(***************************************************************************)

IsHex(c) ==
  LET n == Code(c)
  IN  (n >= 48 /\ n <= 57) \/ (n >= 97 /\ n <= 102) \/ (n >= 65 /\ n <= 70)

UnHex(c) ==
  LET n == Code(c)
  IN  IF n >= 48 /\ n <= 57 THEN n - 48
      ELSE IF n >= 97 /\ n <= 102 THEN n - 97 + 10
      ELSE n - 65 + 10

UpperHex == <<"0", "1", "2", "3", "4", "5", "6", "7", "8", "9", "A", "B", "C", "D", "E", "F">>

LowerHex == <<"0", "1", "2", "3", "4", "5", "6", "7", "8", "9", "a", "b", "c", "d", "e", "f">>

\* Every '%' of s is followed by two hexadecimal digits.
EscapesValid(s) ==
  \A i \in 1..Len(s) :
    s[i] = "%" => (i + 2 <= Len(s) /\ IsHex(s[i + 1]) /\ IsHex(s[i + 2]))

\* What position i of a string with valid escapes decodes to: nothing for
\* the two hexadecimal digits of an escape (they follow a '%', and no
\* hexadecimal digit is a '%'), the byte XX for the '%' of %XX, a space for
\* '+', the character itself otherwise.
UnescapeAt(s, i) ==
  IF (i > 1 /\ s[i - 1] = "%") \/ (i > 2 /\ s[i - 2] = "%") THEN <<>>
  ELSE IF s[i] = "%" THEN <<Chr(UnHex(s[i + 1]) * 16 + UnHex(s[i + 2]))>>
  ELSE IF s[i] = "+" THEN <<" ">>
  ELSE <<s[i]>>

\* url.QueryUnescape: %XX becomes the byte XX, '+' becomes a space; a '%' not
\* followed by two hexadecimal digits is an error.
QueryUnescape(s) ==
  IF EscapesValid(s) THEN [ok |-> TRUE, val |-> Flatten([i \in 1..Len(s) |-> UnescapeAt(s, i)])]
  ELSE [ok |-> FALSE, val |-> <<>>]

ShouldEscape(c) ==
  LET n == Code(c)
  IN  ~((n >= 97 /\ n <= 122) \/ (n >= 65 /\ n <= 90) \/ (n >= 48 /\ n <= 57)
        \/ c \in {"-", "_", ".", "~"})

EscapeByte(c) ==
  IF c = " " THEN <<"+">>
  ELSE IF ShouldEscape(c)
       THEN <<"%", UpperHex[(Code(c) \div 16) + 1], UpperHex[(Code(c) % 16) + 1]>>
       ELSE <<c>>

\* url.QueryEscape.
QueryEscape(s) == Flatten([i \in 1..Len(s) |-> EscapeByte(s[i])])

\* The '&'-separated segments of a query string, in order.
RECURSIVE Segments(_)
Segments(query) ==
  IF query = <<>> THEN <<>>
  ELSE LET c == Cut(query, "&")
       IN  <<c[1]>> \o Segments(c[2])

\* One segment of url.ParseQuery: skipped, an error, or a decoded pair.
ParseSegment(seg) ==
  IF IndexOf(seg, ";") # 0 THEN [kind |-> "error"]
  ELSE IF seg = <<>> THEN [kind |-> "skip"]
  ELSE LET kv == Cut(seg, "=")
           k  == QueryUnescape(kv[1])
           v  == QueryUnescape(kv[2])
       IN  IF ~k.ok \/ ~v.ok THEN [kind |-> "error"]
           ELSE [kind |-> "pair", key |-> k.val, value |-> v.val]

\* url.ParseQuery: the values of each key in order of appearance, and whether
\* any segment was malformed.
ParseQuery(query) ==
  LET segs  == Segments(query)
      items == [i \in 1..Len(segs) |-> ParseSegment(segs[i])]
      pairs == SelectSeq(items, LAMBDA it : it.kind = "pair")
      keys  == {pairs[i].key : i \in 1..Len(pairs)}
      first(k) == CHOOSE i \in 1..Len(pairs) :
                    pairs[i].key = k /\ \A j \in 1..(i - 1) : pairs[j].key # k
  IN  [err   |-> \E i \in 1..Len(items) : items[i].kind = "error",
       first |-> [k \in keys |-> pairs[first(k)].value]]

(***************************************************************************)
(* 64-bit integers as signed decimal digit sequences                       *)
(***************************************************************************)

\* A natural number is its sequence of decimal digits, most significant
\* first, without leading zeros (zero is the empty sequence).
RECURSIVE NatNorm(_)
NatNorm(a) == IF a # <<>> /\ Head(a) = 0 THEN NatNorm(Tail(a)) ELSE a

RECURSIVE NatLess(_, _)
NatLess(a, b) ==
  IF Len(a) # Len(b) THEN Len(a) < Len(b)
  ELSE IF a = <<>> THEN FALSE
  ELSE IF Head(a) # Head(b) THEN Head(a) < Head(b)
  ELSE NatLess(Tail(a), Tail(b))

NatPad(a, n) == [i \in 1..(n - Len(a)) |-> 0] \o a

NatAdd(a, b) ==
  LET n == IF Len(a) > Len(b) THEN Len(a) ELSE Len(b)
      A == NatPad(a, n)
      B == NatPad(b, n)
      carry[i \in 0..n] == IF i = n THEN 0 ELSE (A[i + 1] + B[i + 1] + carry[i + 1]) \div 10
  IN  NatNorm(<<carry[0]>> \o [i \in 1..n |-> (A[i] + B[i] + carry[i]) % 10])

\* a - b for a >= b.
NatSub(a, b) ==
  LET n == Len(a)
      B == NatPad(b, n)
      borrow[i \in 0..n] == IF i = n THEN 0
                            ELSE IF a[i + 1] - B[i + 1] - borrow[i + 1] < 0 THEN 1 ELSE 0
  IN  NatNorm([i \in 1..n |-> (a[i] - B[i] - borrow[i] + 10) % 10])

RECURSIVE NatOf(_)
NatOf(n) == IF n = 0 THEN <<>> ELSE NatOf(n \div 10) \o <<n % 10>>

MkInt(neg, mag) == [neg |-> neg /\ mag # <<>>, mag |-> mag]

IntOf(n) == IF n < 0 THEN MkInt(TRUE, NatOf(-n)) ELSE MkInt(FALSE, NatOf(n))

IntNeg(x) == MkInt(~x.neg, x.mag)

IntAdd(x, y) ==
  IF x.neg = y.neg THEN MkInt(x.neg, NatAdd(x.mag, y.mag))
  ELSE IF NatLess(x.mag, y.mag) THEN MkInt(y.neg, NatSub(y.mag, x.mag))
  ELSE MkInt(x.neg, NatSub(x.mag, y.mag))

IntSub(x, y) == IntAdd(x, IntNeg(y))

IntLess(x, y) ==
  IF x.neg # y.neg THEN x.neg
  ELSE IF x.neg THEN NatLess(y.mag, x.mag)
  ELSE NatLess(x.mag, y.mag)

\* x * 10^9.
IntMulE9(x) == MkInt(x.neg, IF x.mag = <<>> THEN <<>> ELSE x.mag \o <<0, 0, 0, 0, 0, 0, 0, 0, 0>>)

\* 2^63 and 2^64.
Two63 == <<9, 2, 2, 3, 3, 7, 2, 0, 3, 6, 8, 5, 4, 7, 7, 5, 8, 0, 8>>

Two64 == <<1, 8, 4, 4, 6, 7, 4, 4, 0, 7, 3, 7, 0, 9, 5, 5, 1, 6, 1, 6>>

MaxInt64 == MkInt(FALSE, NatSub(Two63, <<1>>))

MinInt64 == MkInt(TRUE, Two63)

InInt64(x) == ~IntLess(x, MinInt64) /\ ~IntLess(MaxInt64, x)

\* int64 arithmetic wraps modulo 2^64 (for |x| < 2^64 + 2^63).
Wrap64(x) ==
  IF IntLess(MaxInt64, x) THEN IntSub(x, MkInt(FALSE, Two64))
  ELSE IF IntLess(x, MinInt64) THEN IntAdd(x, MkInt(FALSE, Two64))
  ELSE x

\* A result outside the range of an int64 is replaced by the nearest bound.
Saturate64(x) ==
  IF IntLess(MaxInt64, x) THEN MaxInt64
  ELSE IF IntLess(x, MinInt64) THEN MinInt64
  ELSE x

\* strconv.ParseInt(s, 10, 64): an optional sign, then one or more decimal
\* digits; a value outside the int64 range is an error.
ParseInt(s) ==
  LET signed == s # <<>> /\ Head(s) \in {"+", "-"}
      neg    == s # <<>> /\ Head(s) = "-"
      body   == IF signed THEN Tail(s) ELSE s
      val    == MkInt(neg, NatNorm([i \in 1..Len(body) |-> DigitVal(body[i])]))
  IN  IF body = <<>> \/ \E i \in 1..Len(body) : ~IsDigit(body[i])
      THEN [ok |-> FALSE, val |-> IntOf(0)]
      ELSE IF ~InInt64(val) THEN [ok |-> FALSE, val |-> IntOf(0)]
      ELSE [ok |-> TRUE, val |-> val]

\* The decimal representation of an integer (fmt.Sprintf("%d", n)).
FormatInt(x) ==
  (IF x.neg THEN <<"-">> ELSE <<>>)
  \o (IF x.mag = <<>> THEN <<"0">> ELSE [i \in 1..Len(x.mag) |-> Digits[x.mag[i] + 1]])

(***************************************************************************)
(* time: Unix, Now, Since                                                  *)
(***************************************************************************)

\* Seconds from January 1, year 1 (the internal epoch of time.Time) to the
\* Unix epoch.
unixToInternal == MkInt(FALSE, <<6, 2, 1, 3, 5, 5, 9, 6, 8, 0, 0>>)

\* time.Unix(sec, 0): the internal seconds are sec + unixToInternal in int64
\* arithmetic, which wraps.
TimeUnix(sec) == [ext |-> Wrap64(IntAdd(sec, unixToInternal)), nsec |-> 0]

\* time.Now() for a clock reading of now.sec Unix seconds and now.nsec
\* nanoseconds.
TimeNow(now) == [ext |-> IntAdd(IntOf(now.sec), unixToInternal), nsec |-> now.nsec]

\* t.Sub(u): the duration t - u in nanoseconds; a result that does not fit a
\* Duration (an int64) is replaced by the maximum or minimum Duration.
TimeSub(t, u) ==
  Saturate64(IntAdd(IntMulE9(IntSub(t.ext, u.ext)), IntOf(t.nsec - u.nsec)))

\* time.Since(t) == time.Now().Sub(t).
TimeSince(t, now) == TimeSub(TimeNow(now), t)

(***************************************************************************)
(* Errors                                                                  *)
(***************************************************************************)

\* An error is the sentinel errors.Is finds in its chain ("" when it wraps no
\* sentinel of the package) and the parts of its message, outermost first.
Nil == [sentinel |-> "nil", text |-> <<>>]

ErrInvalidHash == [sentinel |-> "ErrInvalidHash", text |-> <<"invalid hash">>]

ErrUserFieldMissing == [sentinel |-> "ErrUserFieldMissing", text |-> <<"user field missing">>]

ErrAuthDateMissing == [sentinel |-> "ErrAuthDateMissing", text |-> <<"auth_date field missing">>]

ErrAuthDateInvalid == [sentinel |-> "ErrAuthDateInvalid", text |-> <<"invalid auth_date">>]

ErrDataExpired == [sentinel |-> "ErrDataExpired", text |-> <<"data is too old">>]

ErrInvalidDataFormat == [sentinel |-> "ErrInvalidDataFormat", text |-> <<"invalid data format">>]

\* Errors of the standard library: they wrap no sentinel of the package.
EscapeError == [sentinel |-> "", text |-> <<"invalid URL escape">>]

NumError == [sentinel |-> "", text |-> <<"strconv.ParseInt">>]

SyntaxError == [sentinel |-> "", text |-> <<"json: syntax error">>]

UnmarshalTypeError == [sentinel |-> "", text |-> <<"json: cannot unmarshal">>]

\* fmt.Errorf(prefix + "%w", err).
Wrap(prefix, err) == [sentinel |-> err.sentinel, text |-> <<prefix>> \o err.text]

\* fmt.Errorf("%w: %v", err, cause).
WrapCause(err, cause) == [sentinel |-> err.sentinel, text |-> err.text \o <<": ">> \o cause.text]

\* errors.Is(err, target) for a sentinel target.
ErrorsIs(err, target) == err.sentinel = target.sentinel

MaxDataAge == IntMulE9(IntOf(24 * 3600))

(***************************************************************************)
(* encoding/json: Unmarshal into WebAppUser                                *)
(***************************************************************************)

WebAppUser ==
  [ID |-> 0, IsBot |-> FALSE, IsPremium |-> FALSE, FirstName |-> <<>>, LastName |-> <<>>,
   Username |-> <<>>, LanguageCode |-> <<>>, AddedToAttachmentMenu |-> FALSE,
   AllowsWriteToPm |-> FALSE, PhotoURL |-> <<>>]

\* The struct tags: JSON key, field, type.
Tags ==
  << [key |-> <<"i", "d">>, field |-> "ID", type |-> "number"],
     [key |-> <<"i", "s", "_", "b", "o", "t">>, field |-> "IsBot", type |-> "bool"],
     [key |-> <<"i", "s", "_", "p", "r", "e", "m", "i", "u", "m">>, field |-> "IsPremium", type |-> "bool"],
     [key |-> <<"f", "i", "r", "s", "t", "_", "n", "a", "m", "e">>, field |-> "FirstName", type |-> "string"],
     [key |-> <<"l", "a", "s", "t", "_", "n", "a", "m", "e">>, field |-> "LastName", type |-> "string"],
     [key |-> <<"u", "s", "e", "r", "n", "a", "m", "e">>, field |-> "Username", type |-> "string"],
     [key |-> <<"l", "a", "n", "g", "u", "a", "g", "e", "_", "c", "o", "d", "e">>, field |-> "LanguageCode", type |-> "string"],
     [key |-> <<"a", "d", "d", "e", "d", "_", "t", "o", "_", "a", "t", "t", "a", "c", "h", "m", "e", "n", "t", "_", "m", "e", "n", "u">>,
      field |-> "AddedToAttachmentMenu", type |-> "bool"],
     [key |-> <<"a", "l", "l", "o", "w", "s", "_", "w", "r", "i", "t", "e", "_", "t", "o", "_", "p", "m">>,
      field |-> "AllowsWriteToPm", type |-> "bool"],
     [key |-> <<"p", "h", "o", "t", "o", "_", "u", "r", "l">>, field |-> "PhotoURL", type |-> "string"] >>

Lit(s, i, w) == i + Len(w) - 1 <= Len(s) /\ SubSeq(s, i, i + Len(w) - 1) = w

\* The JSON subset decoded here: objects, strings without backslash escapes,
\* integers, true, false and null, with no white space between tokens.
\* A value parsed at position i is [ok, kind, val, next].
JsonFail == [ok |-> FALSE, kind |-> "", val |-> <<>>, next |-> 0]

JsonString(s, i) ==
  LET rest == SubSeq(s, i + 1, Len(s))
      j    == IndexOf(rest, "\"")
  IN  IF j = 0 \/ \E k \in 1..(j - 1) : Code(rest[k]) < 32 THEN JsonFail
      ELSE [ok |-> TRUE, kind |-> "string", val |-> SubSeq(rest, 1, j - 1), next |-> i + j + 1]

RECURSIVE DigitsEnd(_, _)
DigitsEnd(s, i) == IF i <= Len(s) /\ IsDigit(s[i]) THEN DigitsEnd(s, i + 1) ELSE i

RECURSIVE NumVal(_)
NumVal(ds) == IF ds = <<>> THEN 0 ELSE NumVal(SubSeq(ds, 1, Len(ds) - 1)) * 10 + DigitVal(ds[Len(ds)])

JsonNumber(s, i) ==
  LET neg == s[i] = "-"
      b   == IF neg THEN i + 1 ELSE i
      e   == IF b <= Len(s) /\ s[b] = "0" THEN b + 1 ELSE DigitsEnd(s, b)
  IN  IF e = b THEN JsonFail
      ELSE [ok |-> TRUE, kind |-> "number",
            val |-> (IF neg THEN -1 ELSE 1) * NumVal(SubSeq(s, b, e - 1)), next |-> e]

RECURSIVE JsonValue(_, _)
RECURSIVE JsonMembers(_, _, _)
JsonMembers(s, i, acc) ==
  IF i > Len(s) \/ s[i] # "\"" THEN JsonFail
  ELSE LET k == JsonString(s, i)
       IN  IF ~k.ok \/ k.next > Len(s) \/ s[k.next] # ":" THEN JsonFail
           ELSE LET v   == JsonValue(s, k.next + 1)
                    all == Append(acc, [key |-> k.val, kind |-> v.kind, val |-> v.val])
                IN  IF ~v.ok \/ v.next > Len(s) THEN JsonFail
                    ELSE IF s[v.next] = "," THEN JsonMembers(s, v.next + 1, all)
                    ELSE IF s[v.next] = "}"
                         THEN [ok |-> TRUE, kind |-> "object", val |-> all, next |-> v.next + 1]
                    ELSE JsonFail

JsonValue(s, i) ==
  IF i > Len(s) THEN JsonFail
  ELSE IF s[i] = "\"" THEN JsonString(s, i)
  ELSE IF s[i] = "-" \/ IsDigit(s[i]) THEN JsonNumber(s, i)
  ELSE IF Lit(s, i, <<"t", "r", "u", "e">>) THEN [ok |-> TRUE, kind |-> "bool", val |-> TRUE, next |-> i + 4]
  ELSE IF Lit(s, i, <<"f", "a", "l", "s", "e">>) THEN [ok |-> TRUE, kind |-> "bool", val |-> FALSE, next |-> i + 5]
  ELSE IF Lit(s, i, <<"n", "u", "l", "l">>) THEN [ok |-> TRUE, kind |-> "null", val |-> <<>>, next |-> i + 4]
  ELSE IF Lit(s, i, <<"{", "}">>) THEN [ok |-> TRUE, kind |-> "object", val |-> <<>>, next |-> i + 2]
  ELSE IF s[i] = "{" THEN JsonMembers(s, i + 1, <<>>)
  ELSE JsonFail

\* ASCII case folding, for the case-insensitive match of a key with a tag.
Lower(s) == [i \in 1..Len(s) |->
               IF Code(s[i]) >= 65 /\ Code(s[i]) <= 90 THEN Chr(Code(s[i]) + 32) ELSE s[i]]

\* The tag a JSON key decodes into (0 if none): an exact match is preferred
\* to a case-insensitive one.
TagOf(key) ==
  IF \E t \in 1..Len(Tags) : Tags[t].key = key
  THEN CHOOSE t \in 1..Len(Tags) : Tags[t].key = key
  ELSE IF \E t \in 1..Len(Tags) : Tags[t].key = Lower(key)
  THEN CHOOSE t \in 1..Len(Tags) : Tags[t].key = Lower(key)
  ELSE 0

\* Decoding one member into the struct: an unknown key and a null are
\* skipped; a value of the wrong type leaves the field alone and is reported.
SetMember(st, m) ==
  LET t == TagOf(m.key)
  IN  IF t = 0 \/ m.kind = "null" THEN st
      ELSE IF m.kind # Tags[t].type THEN [st EXCEPT !.typeErr = TRUE]
      ELSE [st EXCEPT !.user = [f \in DOMAIN st.user |->
                                  IF f = Tags[t].field THEN m.val ELSE st.user[f]]]

RECURSIVE SetMembers(_, _)
SetMembers(st, ms) == IF ms = <<>> THEN st ELSE SetMembers(SetMember(st, Head(ms)), Tail(ms))

\* json.Unmarshal(data, &user): the input is validated as a whole first, and
\* a syntax error leaves user untouched; then the members are decoded in
\* order, and the first type mismatch is returned after decoding the rest.
JsonUnmarshal(data, user) ==
  LET v == JsonValue(data, 1)
  IN  IF ~v.ok \/ v.next # Len(data) + 1 THEN [user |-> user, err |-> SyntaxError]
      ELSE IF v.kind = "null" THEN [user |-> user, err |-> Nil]
      ELSE IF v.kind # "object" THEN [user |-> user, err |-> UnmarshalTypeError]
      ELSE LET st == SetMembers([user |-> user, typeErr |-> FALSE], v.val)
           IN  [user |-> st.user, err |-> IF st.typeErr THEN UnmarshalTypeError ELSE Nil]

(***************************************************************************)
(* webapps.go                                                              *)
(***************************************************************************)

K_hash == <<"h", "a", "s", "h">>

K_user == <<"u", "s", "e", "r">>

K_auth_date == <<"a", "u", "t", "h", "_", "d", "a", "t", "e">>

\* params[key]: the empty string for a key the map does not hold.
Get(params, key) == IF key \in DOMAIN params THEN params[key] ELSE <<>>

NoParams == [k \in {} |-> <<>>]

parseInitData(initData) ==
  LET values == ParseQuery(initData)
  IN  IF values.err
      THEN [params |-> NoParams, hash |-> <<>>, err |-> WrapCause(ErrInvalidDataFormat, EscapeError)]
      ELSE [params |-> values.first, hash |-> Get(values.first, K_hash), err |-> Nil]

\* validateRequiredFields with the test of user moved before the test of hash.
UserTestedFirst(params) ==
  IF Get(params, K_user) = <<>> THEN ErrUserFieldMissing
  ELSE IF Get(params, K_hash) = <<>> THEN ErrInvalidHash
  ELSE IF Get(params, K_auth_date) = <<>> THEN ErrAuthDateMissing
  ELSE Nil

\* validateRequiredFields returning, for an empty auth_date, the sentinel of
\* the check after it.
WrongAuthDateSentinel(params) ==
  IF Get(params, K_hash) = <<>> THEN ErrInvalidHash
  ELSE IF Get(params, K_user) = <<>> THEN ErrUserFieldMissing
  ELSE IF Get(params, K_auth_date) = <<>> THEN ErrAuthDateInvalid
  ELSE Nil

validateRequiredFields(params) ==
  IF Get(params, K_hash) = <<>> THEN ErrInvalidHash
  ELSE IF Get(params, K_user) = <<>> THEN ErrUserFieldMissing
  ELSE IF Get(params, K_auth_date) = <<>> THEN ErrAuthDateMissing
  ELSE Nil

validateAuthTimestamp(authDateStr, now) ==
  LET authTimestamp == ParseInt(authDateStr)
  IN  IF ~authTimestamp.ok THEN WrapCause(ErrAuthDateInvalid, NumError)
      ELSE IF IntLess(MaxDataAge, TimeSince(TimeUnix(authTimestamp.val), now)) THEN ErrDataExpired
      ELSE Nil

\* sort.Strings: ascending byte-wise order.
RECURSIVE Insert(_, _)
Insert(sorted, x) ==
  IF sorted = <<>> THEN <<x>>
  ELSE IF StrLess(x, Head(sorted)) THEN <<x>> \o sorted
  ELSE <<Head(sorted)>> \o Insert(Tail(sorted), x)

RECURSIVE SortStrings(_)
SortStrings(strs) == IF strs = <<>> THEN <<>> ELSE Insert(SortStrings(Tail(strs)), Head(strs))

\* The orders in which a range over the map may visit its keys.
RangeOrders(params) ==
  LET n == Cardinality(DOMAIN params)
  IN  {o \in [1..n -> DOMAIN params] : \A i, j \in 1..n : o[i] = o[j] => i = j}

\* One iteration of the loop of createDataCheckString, at key k: what it
\* appends to pairs.
RangeBody(params, k) ==
  IF k = K_hash \/ k = K_auth_date THEN <<>> ELSE <<k \o <<"=">> \o params[k]>>

\* The pairs the loop appends, visiting the keys in the given order.
RangePairs(params, order) == Flatten([i \in 1..Len(order) |-> RangeBody(params, order[i])])

\* createDataCheckString without its call of sort.Strings.
AfterRangeUnsorted(pairs, authDate) ==
  Join(Append(pairs, K_auth_date \o <<"=">> \o authDate), <<"\n">>)

\* createDataCheckString after its loop: the auth_date pair is appended, the
\* pairs are sorted and joined.
AfterRange(pairs, authDate) ==
  Join(SortStrings(Append(pairs, K_auth_date \o <<"=">> \o authDate)), <<"\n">>)

\* createDataCheckString, for one order of the range over params.
createDataCheckString(params, authDate, order) ==
  AfterRange(RangePairs(params, order), authDate)

\* HMAC-SHA256 as a collision-free digest: the digest of (key, message) is
\* modelled by an unambiguous encoding of the pair, so that two digests are
\* equal exactly when their keys and messages are.
HmacSha256(key, message) == FormatInt(IntOf(Len(key))) \o <<":">> \o key \o message

\* hex.EncodeToString.
HexEncode(bytes) ==
  [i \in 1..(2 * Len(bytes)) |->
     LET b == Code(bytes[(i + 1) \div 2])
     IN  IF i % 2 = 1 THEN LowerHex[(b \div 16) + 1] ELSE LowerHex[(b % 16) + 1]]

WebAppData == <<"W", "e", "b", "A", "p", "p", "D", "a", "t", "a">>

computeHMAC(dataCheckString, token) ==
  HexEncode(HmacSha256(HmacSha256(WebAppData, token), dataCheckString))

\* validateDataSignature without the comparison of the two hashes.
HashesNotCompared(params, receivedHash, token, order) ==
  LET dataCheckString == createDataCheckString(params, Get(params, K_auth_date), order)
      expectedHash    == computeHMAC(dataCheckString, token)
  IN  [stdout |-> <<expectedHash, receivedHash>>, err |-> Nil]

\* validateDataSignature, for one order of the range over params: the error
\* and the line it prints.
validateDataSignature(params, receivedHash, token, order) ==
  LET dataCheckString == createDataCheckString(params, Get(params, K_auth_date), order)
      expectedHash    == computeHMAC(dataCheckString, token)
  IN  [stdout |-> <<expectedHash, receivedHash>>,
       err    |-> IF expectedHash # receivedHash THEN ErrInvalidHash ELSE Nil]

decodeUserData(encodedData) ==
  LET decodedData == QueryUnescape(encodedData)
  IN  IF ~decodedData.ok
      THEN [user |-> WebAppUser, err |-> Wrap("url unescape failed: ", EscapeError)]
      ELSE LET r == JsonUnmarshal(decodedData.val, WebAppUser)
           IN  IF r.err # Nil
               THEN [user |-> r.user, err |-> Wrap("json decode failed: ", r.err)]
               ELSE [user |-> r.user, err |-> Nil]

\* VerifyWebAppData run from its first line to its return, reading the clock
\* as now.
VerifyWebAppData(telegramInitData, token, now) ==
  LET p == parseInitData(telegramInitData)
  IN  IF p.err # Nil THEN [user |-> WebAppUser, err |-> Wrap("parsing failed: ", p.err)]
      ELSE IF validateRequiredFields(p.params) # Nil
      THEN [user |-> WebAppUser, err |-> validateRequiredFields(p.params)]
      ELSE IF validateAuthTimestamp(Get(p.params, K_auth_date), now) # Nil
      THEN [user |-> WebAppUser, err |-> validateAuthTimestamp(Get(p.params, K_auth_date), now)]
      ELSE LET order == CHOOSE o \in RangeOrders(p.params) : TRUE
               sig   == validateDataSignature(p.params, p.hash, token, order)
           IN  IF sig.err # Nil THEN [user |-> WebAppUser, err |-> sig.err]
               ELSE decodeUserData(Get(p.params, K_user))

(***************************************************************************)
(* State                                                                   *)
(***************************************************************************)

\* call[c] is the activation record of call c of VerifyWebAppData: its
\* arguments, the clock it reads, its position and its local variables.
\* stdout is the process's standard output, which validateDataSignature
\* prints to.  unit holds the state of a helper function exercised on its
\* own.
VARIABLES call, stdout, unit

vars == <<call, stdout, unit>>

\* The number of callers running at once.
MaxCalls == 2

Calls == 1..MaxCalls

Idle ==
  [pc |-> "idle", telegramInitData |-> <<>>, token |-> <<>>, now |-> [sec |-> 0, nsec |-> 0],
   params |-> NoParams, hashValue |-> <<>>, user |-> WebAppUser, err |-> Nil,
   sent |-> <<>>, origin |-> "none", mark |-> 0]

(***************************************************************************)
(* Callers: the payloads presented for verification                        *)
(***************************************************************************)

Q == "\""

\* {"id":7}
UserPlain == <<"{", Q, "i", "d", Q, ":", "7", "}">>

\* {"id":8}
UserOther == <<"{", Q, "i", "d", Q, ":", "8", "}">>

\* {"id":7,"first_name":"a+b"}
UserPlus ==
  <<"{", Q, "i", "d", Q, ":", "7", ",", Q, "f", "i", "r", "s", "t", "_", "n", "a", "m", "e", Q, ":",
    Q, "a", "+", "b", Q, "}">>

\* {"id":7,"first_name":"50%"}
UserPercent ==
  <<"{", Q, "i", "d", Q, ":", "7", ",", Q, "f", "i", "r", "s", "t", "_", "n", "a", "m", "e", Q, ":",
    Q, "5", "0", "%", Q, "}">>

\* {"id":7,"first_name":5}
UserMistyped ==
  <<"{", Q, "i", "d", Q, ":", "7", ",", Q, "f", "i", "r", "s", "t", "_", "n", "a", "m", "e", Q, ":",
    "5", "}">>

\* {invalid-json}
UserInvalid == <<"{", "i", "n", "v", "a", "l", "i", "d", "-", "j", "s", "o", "n", "}">>

Field(k, raw) == [key |-> k, raw |-> raw]

\* The raw payload of a sequence of fields: key=raw joined by '&'.
Encode(sent) ==
  Join([i \in 1..Len(sent) |-> sent[i].key \o <<"=">> \o sent[i].raw], <<"&">>)

\* The signature the sender computes over its fields with its token.
Sign(sent, token) ==
  LET params == [k \in {sent[i].key : i \in 1..Len(sent)} |->
                   QueryUnescape((CHOOSE f \in {sent[i] : i \in 1..Len(sent)} : f.key = k).raw).val]
  IN  computeHMAC(createDataCheckString(params, Get(params, K_auth_date),
                                        CHOOSE o \in RangeOrders(params) : TRUE), token)

Tokens == {<<"t", "k", "1">>, <<"t", "k", "2">>}

\* The clock readings of a call, and the time the payloads were issued at.
Nows == {[sec |-> 1793000000, nsec |-> 0], [sec |-> 1793000000 + 2 * 86400, nsec |-> 0]}

IssuedAt == FormatInt(IntOf(1793000000 - 1000))

NotANumber == <<"n", "o", "t", "-", "a", "-", "t", "i", "m", "e", "s", "t", "a", "m", "p">>

UserFields ==
  {<<>>, <<Field(K_user, <<>>)>>, <<Field(K_user, QueryEscape(QueryEscape(UserPlain)))>>}
  \cup {<<Field(K_user, QueryEscape(u))>> :
          u \in {UserPlain, UserPlus, UserPercent, UserMistyped, UserInvalid}}

AuthFields ==
  {<<>>, <<Field(K_auth_date, <<>>)>>, <<Field(K_auth_date, IssuedAt)>>,
   <<Field(K_auth_date, NotANumber)>>, <<Field(K_auth_date, FormatInt(MaxInt64))>>}

K_query_id == <<"q", "u", "e", "r", "y", "_", "i", "d">>

ExtraFields ==
  {<<>>, <<Field(K_query_id, <<"A", "A", "H">>)>>, <<Field(K_query_id, <<"%", "z", "z">>)>>}

Hashes(base) ==
  {<<>>, <<Field(K_hash, <<>>)>>, <<Field(K_hash, <<"a", "b", "c", "1", "2", "3">>)>>}
  \cup {<<Field(K_hash, Sign(base, t))>> : t \in Tokens}

\* What an attacker may put in place of a field's value.
TamperValues ==
  {<<>>, UserOther, UserPlain, NotANumber, IssuedAt, FormatInt(IntOf(1793000000 - 999)),
   FormatInt(MaxInt64), <<"B", "B", "B">>}

(***************************************************************************)
(* VerifyWebAppData, one action per stage                                  *)
(***************************************************************************)

Set(c, rec) == call' = [call EXCEPT ![c] = rec]

Return(c, user, err) == Set(c, [call[c] EXCEPT !.pc = "done", !.user = user, !.err = err])

Enter(c, sent, token, now, origin) ==
  Set(c, [Idle EXCEPT !.pc = "parse", !.telegramInitData = Encode(sent), !.token = token,
                      !.now = now, !.sent = sent, !.origin = origin, !.mark = Len(stdout)])

\* A caller calls VerifyWebAppData(telegramInitData, token).
Call(c) ==
  /\ call[c].pc = "idle"
  /\ \E u \in UserFields, a \in AuthFields, x \in ExtraFields, token \in Tokens, now \in Nows :
       \E h \in Hashes(a \o u \o x) : Enter(c, a \o u \o x \o h, token, now, "fresh")
  /\ UNCHANGED <<stdout, unit>>

Parse(c) ==
  /\ call[c].pc = "parse"
  /\ LET r == parseInitData(call[c].telegramInitData)
     IN  IF r.err # Nil THEN Return(c, WebAppUser, Wrap("parsing failed: ", r.err))
         ELSE Set(c, [call[c] EXCEPT !.pc = "required", !.params = r.params, !.hashValue = r.hash])
  /\ UNCHANGED <<stdout, unit>>

CheckRequired(c) ==
  /\ call[c].pc = "required"
  /\ LET err == validateRequiredFields(call[c].params)
     IN  IF err # Nil THEN Return(c, WebAppUser, err)
         ELSE Set(c, [call[c] EXCEPT !.pc = "timestamp"])
  /\ UNCHANGED <<stdout, unit>>

\* VerifyWebAppData with the result of validateAuthTimestamp dropped.
TimestampErrorDropped(c) ==
  /\ call[c].pc = "timestamp"
  /\ Set(c, [call[c] EXCEPT !.pc = "signature"])
  /\ UNCHANGED <<stdout, unit>>

CheckTimestamp(c) ==
  /\ call[c].pc = "timestamp"
  /\ LET err == validateAuthTimestamp(Get(call[c].params, K_auth_date), call[c].now)
     IN  IF err # Nil THEN Return(c, WebAppUser, err)
         ELSE Set(c, [call[c] EXCEPT !.pc = "signature"])
  /\ UNCHANGED unit
  /\ UNCHANGED stdout

CheckSignature(c) ==
  /\ call[c].pc = "signature"
  /\ \E order \in RangeOrders(call[c].params) :
       LET r == validateDataSignature(call[c].params, call[c].hashValue, call[c].token, order)
       IN  /\ stdout' = Append(stdout, r.stdout)
           /\ IF r.err # Nil THEN Return(c, WebAppUser, r.err)
              ELSE Set(c, [call[c] EXCEPT !.pc = "decode"])
  /\ UNCHANGED unit

DecodeUser(c) ==
  /\ call[c].pc = "decode"
  /\ LET r == decodeUserData(Get(call[c].params, K_user))
     IN  Return(c, r.user, r.err)
  /\ UNCHANGED <<stdout, unit>>

\* An accepted payload is presented again with the value of one field other
\* than hash changed, to the same token at the same time.
Tamper(c) ==
  /\ call[c].pc = "done" /\ call[c].err = Nil /\ call[c].origin = "fresh"
  /\ \E i \in 1..Len(call[c].sent), v \in TamperValues :
       /\ call[c].sent[i].key # K_hash
       /\ v # call[c].params[call[c].sent[i].key]
       /\ Enter(c, [call[c].sent EXCEPT ![i].raw = QueryEscape(v)], call[c].token, call[c].now,
                "tampered")
  /\ UNCHANGED <<stdout, unit>>

\* An accepted payload is presented again to another token at the same time.
Retoken(c) ==
  /\ call[c].pc = "done" /\ call[c].err = Nil /\ call[c].origin = "fresh"
  /\ \E token \in Tokens \ {call[c].token} :
       Enter(c, call[c].sent, token, call[c].now, "retokened")
  /\ UNCHANGED <<stdout, unit>>

Init ==
  /\ call = [c \in Calls |-> Idle]
  /\ stdout = <<>>
  /\ unit = <<>>

\* One caller, which may present an accepted payload again.
Next ==
  \/ Call(1)
  \/ Parse(1)
  \/ CheckRequired(1)
  \/ CheckTimestamp(1)
  \/ CheckSignature(1)
  \/ DecodeUser(1)
  \/ Tamper(1)
  \/ Retoken(1)

Spec == Init /\ [][Next]_vars

(***************************************************************************)
(* Concurrent callers                                                      *)
(***************************************************************************)

\* The payloads the concurrent callers present.
ConcUserFields == {<<Field(K_user, QueryEscape(u))>> : u \in {UserPlain, UserMistyped}}

ConcAuthFields == {<<Field(K_auth_date, IssuedAt)>>, <<Field(K_auth_date, NotANumber)>>}

ConcHashes(base) ==
  {<<Field(K_hash, <<"a", "b", "c", "1", "2", "3">>)>>, <<Field(K_hash, Sign(base, <<"t", "k", "1">>))>>}

CallConc(c) ==
  /\ call[c].pc = "idle"
  /\ \E u \in ConcUserFields, a \in ConcAuthFields, token \in Tokens :
       \E h \in ConcHashes(a \o u) :
         Enter(c, a \o u \o h, token, [sec |-> 1793000000, nsec |-> 0], "fresh")
  /\ UNCHANGED <<stdout, unit>>

\* Any number of callers, their stages interleaved in any order.
NextConc ==
  \E c \in Calls :
    \/ CallConc(c)
    \/ Parse(c)
    \/ CheckRequired(c)
    \/ CheckTimestamp(c)
    \/ CheckSignature(c)
    \/ DecodeUser(c)

SpecConc == Init /\ [][NextConc]_vars

(***************************************************************************)
(* validateRequiredFields on its own                                       *)
(***************************************************************************)

FieldValues == {<<>>, <<"x">>, <<"a", "b", "c", "1", "2", "3">>}

\* The field maps over the three required keys and one other key.
FieldMaps ==
  UNION {[ks -> FieldValues] : ks \in SUBSET {K_hash, K_user, K_auth_date, K_query_id}}

InitFields ==
  /\ call = [c \in Calls |-> Idle]
  /\ stdout = <<>>
  /\ \E m \in FieldMaps : unit = [fn |-> "validateRequiredFields", params |-> m, pc |-> "called"]

ValidateRequiredFields ==
  /\ unit.pc = "called"
  /\ unit' = [fn |-> unit.fn, params |-> unit.params, pc |-> "returned",
              err |-> validateRequiredFields(unit.params)]
  /\ UNCHANGED <<call, stdout>>

SpecFields == InitFields /\ [][ValidateRequiredFields]_vars

(***************************************************************************)
(* validateAuthTimestamp on its own                                        *)
(***************************************************************************)

UnitNows ==
  {[sec |-> s, nsec |-> n] : s \in {1793000000, 1793000000 + 2 * 86400}, n \in {0, 1, 999999999}}

\* auth_date values around the clock reading.
Around(now) ==
  {FormatInt(IntAdd(IntOf(now.sec), IntOf(d))) :
     d \in {-(24 * 3600) - 3600, -(24 * 3600) - 1, -(24 * 3600), -(24 * 3600) + 1, -1000, -1,
            0, 1, 1000, 24 * 3600, 24 * 3600 + 1}}

\* auth_date values at the ends of the int64 range, where time.Unix wraps,
\* and where the duration does not fit an int64.
Extremes ==
  {FormatInt(x) :
     x \in {MaxInt64, IntSub(MaxInt64, IntOf(1)), IntSub(MaxInt64, unixToInternal),
            IntAdd(IntSub(MaxInt64, unixToInternal), IntOf(1)), MinInt64, IntOf(0), IntOf(-1),
            IntMulE9(IntOf(11)), IntMulE9(IntOf(12)), IntNeg(IntMulE9(IntOf(8)))}}

\* Strings ParseInt rejects.
NotIntegers ==
  {<<>>, NotANumber, <<"1", "2", "a">>, <<"1", ".", "5">>, <<" ", "1">>, <<"-">>, <<"0", "x", "1">>,
   FormatInt(IntAdd(MaxInt64, IntOf(1))), FormatInt(IntSub(MinInt64, IntOf(1)))}

InitTimestamp ==
  /\ call = [c \in Calls |-> Idle]
  /\ stdout = <<>>
  /\ \E now \in UnitNows : \E s \in Around(now) \cup Extremes \cup NotIntegers \cup {<<"+", "5">>} :
       unit = [fn |-> "validateAuthTimestamp", authDateStr |-> s, now |-> now, pc |-> "called"]

ValidateAuthTimestamp ==
  /\ unit.pc = "called"
  /\ unit' = [fn |-> unit.fn, authDateStr |-> unit.authDateStr, now |-> unit.now,
              pc |-> "returned", err |-> validateAuthTimestamp(unit.authDateStr, unit.now)]
  /\ UNCHANGED <<call, stdout>>

SpecTimestamp == InitTimestamp /\ [][ValidateAuthTimestamp]_vars

(***************************************************************************)
(* createDataCheckString on its own, the range over the map in any order   *)
(***************************************************************************)

CheckValues == {<<"1">>, <<"1", "0">>, <<"=", "b">>}

CheckKeys == {K_hash, K_auth_date, <<"a">>, <<"a", "=">>, <<"a", "b">>}

CheckMaps == UNION {[ks -> CheckValues] : ks \in SUBSET CheckKeys}

InitCheckString ==
  /\ call = [c \in Calls |-> Idle]
  /\ stdout = <<>>
  /\ \E m \in CheckMaps, authDate \in {<<"1">>, <<"2">>} :
       unit = [fn |-> "createDataCheckString", params |-> m, authDate |-> authDate,
               pc |-> "range", todo |-> DOMAIN m, pairs |-> <<>>]

\* One iteration of the range over params: Go visits the keys of a map in an
\* unspecified order.
Range ==
  /\ unit.pc = "range"
  /\ \E k \in unit.todo :
       unit' = [unit EXCEPT !.todo = unit.todo \ {k},
                            !.pairs = unit.pairs \o RangeBody(unit.params, k)]
  /\ UNCHANGED <<call, stdout>>

Sorted ==
  /\ unit.pc = "range" /\ unit.todo = {}
  /\ unit' = [fn |-> unit.fn, params |-> unit.params, authDate |-> unit.authDate,
              pc |-> "returned", out |-> AfterRange(unit.pairs, unit.authDate)]
  /\ UNCHANGED <<call, stdout>>

NextCheckString == Range \/ Sorted

SpecCheckString == InitCheckString /\ [][NextCheckString]_vars

(***************************************************************************)
(* What the checks are meant to decide, stated on the payload itself       *)
(***************************************************************************)

Done(c) == call[c].pc = "done"

\* The lines this call printed (one caller at a time).
Printed(c) == SubSeq(stdout, call[c].mark + 1, Len(stdout))

\* The field map of a payload.
FieldMap(c) == ParseQuery(call[c].telegramInitData)

Malformed(c) == FieldMap(c).err

Has(c, key) == ~Malformed(c) /\ Get(FieldMap(c).first, key) # <<>>

RequiredPresent(c) == Has(c, K_hash) /\ Has(c, K_user) /\ Has(c, K_auth_date)

AuthDate(c) == ParseInt(Get(FieldMap(c).first, K_auth_date))

\* now - auth_date exceeds 24 hours, in exact arithmetic.
OverAge(authDate, now) ==
  LET age == IntSub(IntOf(now.sec), authDate)
      max == IntOf(24 * 3600)
  IN  IntLess(max, age) \/ (age = max /\ now.nsec > 0)

\* The canonical string of a field map: the lines key=value of every field
\* other than hash, in ascending order, joined by newlines.
CanonicalString(params) ==
  LET lines == {k \o <<"=">> \o params[k] : k \in DOMAIN params \ {K_hash}}
      n     == Cardinality(lines)
      seq   == CHOOSE q \in [1..n -> lines] : \A i, j \in 1..n : i < j => StrLess(q[i], q[j])
  IN  Join(seq, <<"\n">>)

\* The claimed hash is the signature of the payload's fields under the token.
SignatureMatches(c) ==
  /\ ~Malformed(c)
  /\ Get(FieldMap(c).first, K_hash) = computeHMAC(CanonicalString(FieldMap(c).first), call[c].token)

\* The payload's auth_date passes the timestamp check of this call.
PassesTimestamp(c) ==
  validateAuthTimestamp(Get(FieldMap(c).first, K_auth_date), call[c].now) = Nil

IsDecodeError(err) ==
  err.sentinel = "" /\ err.text # <<>>
  /\ err.text[1] \in {"url unescape failed: ", "json decode failed: "}

(***************************************************************************)
(* C2: the stages run in the order parse, required fields, timestamp,      *)
(* signature, user decode, and the first failure is returned.              *)
(***************************************************************************)

\* C2: when VerifyWebAppData has returned, a payload with all required
\* fields whose auth_date is not an integer got the invalid-auth_date error,
\* and one whose auth_date is over age got the expired error, whatever its
\* hash, and in both cases the signature stage printed nothing; and a
\* user-decode error is returned only after the signature stage ran and
\* found the claimed hash equal to the signature.
C2_StageOrder ==
  \A c \in Calls : Done(c) =>
    /\ (RequiredPresent(c) /\ ~AuthDate(c).ok)
         => (ErrorsIs(call[c].err, ErrAuthDateInvalid) /\ Printed(c) = <<>>)
    /\ (RequiredPresent(c) /\ AuthDate(c).ok /\ OverAge(AuthDate(c).val, call[c].now))
         => (call[c].err = ErrDataExpired /\ Printed(c) = <<>>)
    /\ IsDecodeError(call[c].err)
         => (/\ SignatureMatches(c)
             /\ Len(Printed(c)) = 1
             /\ Printed(c)[1][1] = Printed(c)[1][2])
    /\ (Malformed(c) \/ ~RequiredPresent(c)) => Printed(c) = <<>>

\* A call returned the invalid-auth_date error for a payload whose hash is
\* not the signature either.
C2_Witness ==
  \E c \in Calls :
    /\ Done(c) /\ RequiredPresent(c) /\ ~AuthDate(c).ok /\ ~SignatureMatches(c)
    /\ ErrorsIs(call[c].err, ErrAuthDateInvalid)

(***************************************************************************)
(* C3: success requires the claimed hash to be the signature               *)
(***************************************************************************)

\* C3 as stated: an accepted payload presented again with one field other
\* than hash changed fails with the invalid-hash error.
C3_TamperIsInvalidHash ==
  \A c \in Calls : (Done(c) /\ call[c].origin = "tampered") => call[c].err = ErrInvalidHash

\* C3 as amended: a call succeeds only if the claimed hash is the signature,
\* under its token, of the canonical string of every field other than hash;
\* an accepted payload presented to a token under which the signature
\* differs fails with the invalid-hash error; an accepted payload with one
\* field other than hash changed fails, with the invalid-hash error if it
\* still passes the required-field check and the timestamp check, and with
\* the error of the first of these two checks it fails otherwise.
C3_SuccessNeedsSignature ==
  \A c \in Calls : Done(c) =>
    /\ call[c].err = Nil => SignatureMatches(c)
    /\ (call[c].origin = "retokened" /\ ~SignatureMatches(c)) => call[c].err = ErrInvalidHash
    /\ call[c].origin = "tampered" =>
         /\ call[c].err # Nil
         /\ ~IsDecodeError(call[c].err)
         /\ (RequiredPresent(c) /\ PassesTimestamp(c)) => call[c].err = ErrInvalidHash
         /\ ~Has(c, K_user) => call[c].err = ErrUserFieldMissing
         /\ (Has(c, K_user) /\ ~Has(c, K_auth_date)) => call[c].err = ErrAuthDateMissing
         /\ (RequiredPresent(c) /\ ~PassesTimestamp(c))
              => call[c].err = validateAuthTimestamp(Get(FieldMap(c).first, K_auth_date), call[c].now)

\* A tampered payload that still passes the first two checks was rejected
\* by the signature check.
C3_Witness ==
  \E c \in Calls :
    /\ Done(c) /\ call[c].origin = "tampered" /\ call[c].err = ErrInvalidHash
    /\ RequiredPresent(c) /\ PassesTimestamp(c)

(***************************************************************************)
(* C7: no partial profile on failure                                       *)
(***************************************************************************)

\* C7: whenever VerifyWebAppData returns an error, the profile it returns is
\* the zero value.
C7_ZeroProfileOnError ==
  \A c \in Calls : (Done(c) /\ call[c].err # Nil) => call[c].user = WebAppUser

\* A call returned the error of the JSON decoder together with a profile that
\* holds the id of the payload.
C7_Witness ==
  \E c \in Calls :
    /\ Done(c) /\ IsDecodeError(call[c].err)
    /\ call[c].user # WebAppUser
    /\ call[c].user.ID = JsonUnmarshal(FieldMap(c).first[K_user], WebAppUser).user.ID

(***************************************************************************)
(* C8: the error kinds                                                     *)
(***************************************************************************)

C10_SinglyDecodedProfile ==
  \A c \in Calls :
    (/\ Done(c) /\ RequiredPresent(c) /\ SignatureMatches(c)
     /\ ~ErrorsIs(call[c].err, ErrAuthDateInvalid) /\ ~ErrorsIs(call[c].err, ErrDataExpired)
     /\ JsonUnmarshal(FieldMap(c).first[K_user], WebAppUser).err = Nil)
    => /\ call[c].err = Nil
       /\ call[c].user = JsonUnmarshal(FieldMap(c).first[K_user], WebAppUser).user

\* A correctly signed payload whose user value is JSON holding a '+' was
\* accepted with a profile other than the one that JSON describes.
C10_Witness ==
  \E c \in Calls :
    /\ Done(c) /\ call[c].err = Nil /\ SignatureMatches(c)
    /\ JsonUnmarshal(FieldMap(c).first[K_user], WebAppUser).err = Nil
    /\ call[c].user # JsonUnmarshal(FieldMap(c).first[K_user], WebAppUser).user

(***************************************************************************)
(* C1: the required-field check                                            *)
(***************************************************************************)

Lacks(params, key) == key \notin DOMAIN params \/ params[key] = <<>>

\* C1: validateRequiredFields tests hash, then user, then auth_date, treats
\* an absent field like an empty one, and reports the first that fails: the
\* error of a missing hash (ErrInvalidHash) whatever user and auth_date are,
\* else the error of a missing user whatever auth_date is, else the error of
\* a missing auth_date, else none.
C1_FirstMissingField ==
  (unit.fn = "validateRequiredFields" /\ unit.pc = "returned") =>
    /\ Lacks(unit.params, K_hash) => unit.err = ErrInvalidHash
    /\ (~Lacks(unit.params, K_hash) /\ Lacks(unit.params, K_user)) => unit.err = ErrUserFieldMissing
    /\ (~Lacks(unit.params, K_hash) /\ ~Lacks(unit.params, K_user) /\ Lacks(unit.params, K_auth_date))
         => unit.err = ErrAuthDateMissing
    /\ (~Lacks(unit.params, K_hash) /\ ~Lacks(unit.params, K_user) /\ ~Lacks(unit.params, K_auth_date))
         => unit.err = Nil

\* A map lacking both hash and user, its hash key absent, was reported as
\* lacking hash.
C1_Witness ==
  /\ unit.fn = "validateRequiredFields" /\ unit.pc = "returned"
  /\ K_hash \notin DOMAIN unit.params /\ Lacks(unit.params, K_user)
  /\ K_auth_date \in DOMAIN unit.params
  /\ unit.err = ErrInvalidHash

(***************************************************************************)
(* C4, C5: the timestamp check                                             *)
(***************************************************************************)

TimestampReturned == unit.fn = "validateAuthTimestamp" /\ unit.pc = "returned"

\* C4: validateAuthTimestamp returns the expired error exactly when
\* now - auth_date exceeds 24 hours, and the invalid-auth_date error for a
\* string that is not a base-10 64-bit integer.
C4_ExpiredIffOverAge ==
  TimestampReturned =>
    LET authDate == ParseInt(unit.authDateStr)
    IN  /\ ~authDate.ok => ErrorsIs(unit.err, ErrAuthDateInvalid)
        /\ authDate.ok => (unit.err = ErrDataExpired <=> OverAge(authDate.val, unit.now))
        /\ authDate.ok => unit.err \in {ErrDataExpired, Nil}

\* An auth_date one second inside the window passed, at a clock reading with
\* a fraction of a second.
C4_Witness ==
  /\ TimestampReturned /\ unit.now.nsec > 0 /\ unit.err = Nil
  /\ unit.authDateStr = FormatInt(IntOf(unit.now.sec - 24 * 3600 + 1))

\* C5: validateAuthTimestamp returns no error for an auth_date that is a
\* 64-bit integer not before the clock reading.
C5_FutureAccepted ==
  TimestampReturned =>
    LET authDate == ParseInt(unit.authDateStr)
    IN  (authDate.ok /\ ~IntLess(authDate.val, IntOf(unit.now.sec))) => unit.err = Nil

\* An auth_date more than 292 years ahead, whose distance does not fit a
\* Duration, was accepted.
C5_Witness ==
  /\ TimestampReturned /\ unit.err = Nil
  /\ unit.authDateStr = FormatInt(IntSub(MaxInt64, unixToInternal))

(***************************************************************************)
(* C6: the data-check string                                               *)
(***************************************************************************)

\* The lines the data-check string is to hold: one for each field other than
\* hash and auth_date, in some order, then the one of the supplied auth_date.
LinesOf(params, authDate) ==
  LET keys == DOMAIN params \ {K_hash, K_auth_date}
      n    == Cardinality(keys)
      e    == CHOOSE f \in [1..n -> keys] : \A i, j \in 1..n : f[i] = f[j] => i = j
  IN  [i \in 1..(n + 1) |->
         IF i <= n THEN e[i] \o <<"=">> \o params[e[i]] ELSE K_auth_date \o <<"=">> \o authDate]

\* C6: whatever the order of the range over the map, createDataCheckString
\* returns the lines key=value of the fields other than hash and auth_date
\* and one line auth_date=<supplied value>, each once, in ascending
\* byte-wise order, joined by single newlines with none at the end.
C6_CheckStringCanonical ==
  (unit.fn = "createDataCheckString" /\ unit.pc = "returned") =>
    LET lines == LinesOf(unit.params, unit.authDate)
        n     == Len(lines)
    IN  \E p \in [1..n -> 1..n] :
          /\ \A i, j \in 1..n : p[i] = p[j] => i = j
          /\ \A i \in 1..(n - 1) : ~StrLess(lines[p[i + 1]], lines[p[i]])
          /\ unit.out = Flatten([i \in 1..(2 * n - 1) |->
                                   IF i % 2 = 1 THEN lines[p[(i + 1) \div 2]] ELSE <<"\n">>])

\* A map holding hash, an auth_date other than the supplied one and two more
\* fields was turned into three lines.
C6_Witness ==
  /\ unit.fn = "createDataCheckString" /\ unit.pc = "returned"
  /\ K_hash \in DOMAIN unit.params /\ K_auth_date \in DOMAIN unit.params
  /\ unit.params[K_auth_date] # unit.authDate
  /\ Cardinality(DOMAIN unit.params) = 4
  /\ Cardinality({i \in 1..Len(unit.out) : unit.out[i] = "\n"}) = 2

(***************************************************************************)
(* C9: calls are independent                                               *)
(***************************************************************************)

\* C9: a call writes no state shared with another call, and returns what it
\* returns when run alone with the same payload, token and clock reading.
C9_NoSharedState ==
  /\ stdout = <<>>
  /\ \A c \in Calls : Done(c) =>
       [user |-> call[c].user, err |-> call[c].err]
         = VerifyWebAppData(call[c].telegramInitData, call[c].token, call[c].now)

\* C9, the part about results alone: a call returns what it returns when
\* run alone with the same payload, token and clock reading.
C9_ResultsIndependent ==
  \A c \in Calls : Done(c) =>
    [user |-> call[c].user, err |-> call[c].err]
      = VerifyWebAppData(call[c].telegramInitData, call[c].token, call[c].now)

\* Two calls have returned, and standard output holds a line of each.
C9_Witness ==
  /\ \A c \in Calls : Done(c)
  /\ Len(stdout) = 2
  /\ call[1].telegramInitData # call[2].telegramInitData
====
